---- MODULE Spec2Model ----
(***************************************************************************)
(* Model of src/model_competition.py: the three-stage competition loss of  *)
(* CompetitionCNN.calculate_loss and the control flow of                   *)
(* CompetitionBaseCNN.train / CompetitionBaseCNN.test.                     *)
(*                                                                         *)
(* Numbers.  A float is modelled as an exact fraction <<n, d>> in lowest   *)
(* terms (d > 0); the float NaN is the fraction <<0, 0>>.  Rounding is not *)
(* modelled.  A per-branch cost tensor is a sequence (one row per sample)  *)
(* of sequences (one entry per branch) of such fractions.                  *)
(***************************************************************************)
EXTENDS Integers, Sequences, FiniteSets, TLC

\* ------------------------------------------------------------------ bounds
\* samples per batch in the enumerated loss inputs (cfg.batch_size)
MaxBatch == 1
\* output branches of the model (15 in the code, w3's last dimension)
NBranches == 2
\* fractional positions per block category: one per branch (the 15 of
\* batch_train[index] * 15, and the subsets enumerated at epoch 1)
NumFrac == NBranches
\* per-branch costs and baseline costs range over 0..MaxCost
MaxCost == 2

\* cfg.epoch
MaxEpoch == 4
\* cfg.early_stopping
EarlyStopping == 3
\* calls of train() and test() in one behaviour
MaxRuns == 2

\* --------------------------------------------------------------- fractions
NaN == <<0, 0>>

\* np.isnan
IsNaN(x) == x = NaN

RECURSIVE GCD(_, _)
GCD(a, b) == IF b = 0 THEN a ELSE GCD(b, a % b)

Norm(n, d) == IF d = 0 THEN NaN ELSE LET g == GCD(n, d) IN <<n \div g, d \div g>>

Rat(c) == <<c, 1>>

\* IEEE-754: every comparison with NaN is false
RatLess(a, b) == ~IsNaN(a) /\ ~IsNaN(b) /\ a[1] * b[2] < b[1] * a[2]

\* IEEE-754: NaN + x = NaN
RatAdd(a, b) == IF IsNaN(a) \/ IsNaN(b) THEN NaN
                ELSE Norm(a[1] * b[2] + b[1] * a[2], a[2] * b[2])

\* x / k for an integer k; 0 / 0 (the mean of an empty tensor) is NaN
RatDivInt(a, k) == IF IsNaN(a) THEN NaN ELSE Norm(a[1], a[2] * k)

RECURSIVE RatSum(_)
RatSum(xs) == IF xs = <<>> THEN Rat(0) ELSE RatAdd(Head(xs), RatSum(Tail(xs)))

\* ------------------------------------------------------ tensor operations
\* tf.reduce_mean of a rank-1 tensor; the mean of an empty tensor is NaN
reduce_mean(xs) == RatDivInt(RatSum(xs), Len(xs))

\* tf.reduce_mean(cost, axis=1): per sample, the mean over the branches
reduce_mean_axis1(cost) == [s \in 1..Len(cost) |-> reduce_mean(cost[s])]

RECURSIVE MinOf(_)
MinOf(xs) == IF Len(xs) = 1 THEN Head(xs)
             ELSE LET m == MinOf(Tail(xs)) IN IF RatLess(m, Head(xs)) THEN m ELSE Head(xs)

\* tf.reduce_min(cost, axis=1): per sample, the minimum over the branches
reduce_min_axis1(cost) == [s \in 1..Len(cost) |-> MinOf(cost[s])]

\* tf.stack([a, b]): a tensor of shape 2 x batch
stack(a, b) == <<a, b>>

\* the strict comparison argmax uses to replace its running maximum
ArgmaxTakesTies(best, x) == ~RatLess(x, best)
ArgmaxTakes(best, x) == RatLess(best, x)

\* tf.math.argmax(comp_loss, 0): per sample, the 0-based index of the row
\* holding the largest value; the first such row when the values are equal
argmax0(comp_loss) ==
    [s \in 1..Len(comp_loss[1]) |->
        IF ArgmaxTakes(comp_loss[1][s], comp_loss[2][s]) THEN 1 ELSE 0]

\* tf.cast(idx, tf.bool)
cast_bool(idx) == [s \in 1..Len(idx) |-> idx[s] # 0]

RECURSIVE boolean_mask(_, _)
\* tf.boolean_mask(xs, mask): the entries of xs whose mask is true, in order
boolean_mask(xs, mask) ==
    IF xs = <<>> THEN <<>>
    ELSE IF Head(mask) THEN <<Head(xs)>> \o boolean_mask(Tail(xs), Tail(mask))
         ELSE boolean_mask(Tail(xs), Tail(mask))

slice_first(cost, subset, batch_size) == [s \in 1..batch_size |-> cost[s][1]]
\* tf.slice(cost, [0, subset], [batch_size, 1]), flattened; subset is 0-based
slice(cost, subset, batch_size) == [s \in 1..batch_size |-> cost[s][subset + 1]]

\* CompetitionCNN.calculate_loss.vvc_competition
vvc_competition(cost, vvc_loss) ==
    LET nn_loss == reduce_min_axis1(cost)
        comp_loss == stack(nn_loss, vvc_loss)
        idx == argmax0(comp_loss)
        mask == cast_bool(idx)
    IN  boolean_mask(nn_loss, mask)

calculate_loss_swapped(f) ==
    reduce_mean(IF f.epoch > 1
                THEN (IF f.epoch > 2
                      THEN vvc_competition(f.cost, f.vvc_loss)
                      ELSE slice(f.cost, f.subset, f.batch_size))
                ELSE reduce_mean_axis1(f.cost))

\* CompetitionCNN.calculate_loss, evaluated on a feed dict f:
\* f.cost is what complex_loss yields for the fed inputs and labels
calculate_loss(f) ==
    reduce_mean(IF f.epoch > 0
                THEN (IF f.epoch > 1
                      THEN vvc_competition(f.cost, f.vvc_loss)
                      ELSE slice(f.cost, f.subset, f.batch_size))
                ELSE reduce_mean_axis1(f.cost))

\* ------------------------------------------------------------------- state
VARIABLES
    pc,              \* where the running call is: "idle" between calls
    outcome,         \* how the last call ended
    runs,            \* calls of train() made so far
    data,            \* the batches the dataset and the network can yield
    max_runs,        \* calls of train() this behaviour may make
    batch_train,     \* calculate_batch_number: training batches per block category
    batch_val,       \* calculate_batch_number: validation batches per block category
    ckpt,            \* the checkpoint store: NoCkpt or the last checkpoint written
    params,          \* model parameters: the number of optimizer updates they carry
    summaries,       \* the steps writer.add_summary was called with, this run
    best_val,        \* save_epoch: best validation error seen
    counter,         \* save_epoch: consecutive epochs without improvement
    loaded,          \* the checkpoint load() restored for this run (load() returns its step)
    global_step, start_epoch, ep, index, idx, frac,
    feed,            \* the feed dict of the last sess.run
    err_valid,       \* the loss of the last loss-only sess.run
    err_train, error_val_list, err_val,
    steps,           \* history: optimizer steps (train_op runs) of this run
    val_fed,         \* history: validation batches fed this epoch
    val_nan,         \* history: those of them whose loss was NaN
    val_skipped,     \* history: those of them left by continue
    ep_log,          \* history: <<category, batch index, subset>> of this epoch's training batches
    ep_steps,        \* history: optimizer steps of this epoch
    ep_fwd,          \* history: loss-only forward passes of this epoch's training pass
    saved,           \* history: the arguments and result of the last save_epoch call
    inferred,        \* test(): inference batches run by this call
    error_pred, error_vvc, error_blocks,
    batch_test,      \* test(): batches per block category
    results          \* save_results calls: the triples of lists written

vars == <<pc, outcome, runs, data, max_runs, batch_train, batch_val, ckpt, params, summaries, best_val,
          counter, loaded, global_step, start_epoch, ep, index, idx, frac, feed,
          err_valid, err_train, error_val_list, err_val, steps, val_fed, val_nan,
          val_skipped, ep_log, ep_steps, ep_fwd, saved, inferred, error_pred, error_vvc, error_blocks, batch_test, results>>

\* Python's None
None == <<>>
NoFeed == [cost |-> <<>>, vvc_loss |-> <<>>, epoch |-> 0, subset |-> 0, batch_size |-> 0]
NoCkpt == [step |-> 0, params |-> 0, best |-> None, epoch |-> -1, fresh |-> FALSE]

\* CompetitionBaseCNN.competition_feed_dict: b is the batch the data and the
\* current parameters yield, as its per-branch costs and its baseline costs
competition_feed_dict(b, epoch, subset) ==
    [cost |-> b.cost, vvc_loss |-> b.vvc_loss, epoch |-> epoch, subset |-> subset,
     batch_size |-> Len(b.cost)]

\* ------------------------------------------------ the loss on its own
\* every cost tensor of n samples with integer entries 0..MaxCost
CostRows == [1..NBranches -> {Rat(c) : c \in 0..MaxCost}]
LossBatches ==
    UNION {[cost : [1..n -> CostRows], vvc_loss : [1..n -> {Rat(c) : c \in 0..MaxCost}]]
           : n \in 1..MaxBatch}

\* the batch of the documented example, in units of 0.1:
\* nn = (0.1, 0.2, 0.3), baseline = (0.5, 0.1, 0.4)
ExampleBatch ==
    [cost |-> << [j \in 1..NBranches |-> Rat(j)],
                 [j \in 1..NBranches |-> Rat(j + 1)],
                 [j \in 1..NBranches |-> Rat(NBranches + 3 - j)] >>,
     vvc_loss |-> <<Rat(5), Rat(1), Rat(4)>>]

\* the batches the data and the current parameters can yield: two samples,
\* the first with its smallest cost on branch 0 and the second on the last
\* branch, against a baseline cost of 3 for both
Profile(a1, a2) ==
    [cost |-> << [j \in 1..NBranches |-> Rat(a1 + j - 1)],
                 [j \in 1..NBranches |-> Rat(a2 + NBranches - j)] >>,
     vvc_loss |-> <<Rat(3), Rat(3)>>]
\* a batch on which the network's outputs are not finite
Diverged ==
    [cost |-> << [j \in 1..NBranches |-> NaN], [j \in 1..NBranches |-> NaN] >>,
     vvc_loss |-> <<Rat(3), Rat(3)>>]
\* both samples beat the baseline
Win == Profile(1, 1)
\* both samples beat the baseline, by less
Mid == Profile(2, 2)
\* one sample ties with the baseline and one does not beat it
Lose == Profile(3, 4)
\* the loss inputs: every small batch, the documented example, and the
\* batches the training runs draw from
LossInputs == LossBatches \cup {ExampleBatch, Win, Mid, Lose, Profile(2, 3), Diverged}

\* the epoch values fed to the loss: all three phases, and one below and above
LossEpochs == {-1, 0, 1, 2, 3}

Quiet ==
    /\ outcome = "none" /\ runs = 0
    /\ ckpt = NoCkpt /\ params = 0 /\ summaries = {}
    /\ best_val = None /\ counter = 0 /\ loaded = NoCkpt
    /\ global_step = 0 /\ start_epoch = 0 /\ ep = 0 /\ index = 1 /\ idx = 0 /\ frac = 0
    /\ err_train = None /\ error_val_list = <<>> /\ err_val = None
    /\ steps = 0 /\ val_fed = 0 /\ val_nan = 0 /\ val_skipped = 0
    /\ ep_log = {} /\ ep_steps = 0 /\ ep_fwd = 0 /\ saved = None
    /\ inferred = 0 /\ error_pred = <<>> /\ error_vvc = <<>> /\ error_blocks = <<>>
    /\ batch_test = <<>>
    /\ results = <<>>

InitLoss ==
    /\ pc = "fed"
    /\ \E b \in LossInputs, e \in LossEpochs :
         \E i \in (IF e = 1 THEN 0..(NBranches - 1) ELSE {0}) :
           feed = competition_feed_dict(b, e, i)
    /\ err_valid = None
    /\ batch_train = <<>> /\ batch_val = <<>>
    /\ data = {} /\ max_runs = 0
    /\ Quiet

\* err_valid = self.sess.run([self.loss], feed_dict=feed_dict)
RunLoss ==
    /\ pc = "fed"
    /\ err_valid' = calculate_loss(feed)
    /\ pc' = "ran"
    /\ UNCHANGED <<outcome, runs, data, max_runs, batch_train, batch_val, ckpt, params,
                   summaries, best_val, counter, loaded, global_step, start_epoch, ep,
                   index, idx, frac, feed, err_train, error_val_list, err_val, steps, val_fed,
                   val_nan, val_skipped, ep_log, ep_steps, ep_fwd, saved, inferred, error_pred, error_vvc,
                   error_blocks, batch_test, results>>

NextLoss == RunLoss

SpecLoss == InitLoss /\ [][NextLoss]_vars

\* ------------------------------------------------------------ train()
\* the block categories of the dataset explored
Blocks == 1..2
NumBlocks == Cardinality(Blocks)

RECURSIVE SumSeq(_)
SumSeq(xs) == IF xs = <<>> THEN 0 ELSE Head(xs) + SumSeq(Tail(xs))

\* what is explored: a network whose outputs stay finite, trained and then
\* restarted from its checkpoint, and a network whose outputs can diverge
\* (batch counts are per block category and fractional position), and a
\* dataset with more than one batch per position on which the network
\* always beats the baseline
Scenarios == {[data |-> {Win, Lose}, max_runs |-> MaxRuns,
               batch_train |-> <<1, 1>>, batch_val |-> <<1, 1>>],
              [data |-> {Win, Diverged}, max_runs |-> 1,
               batch_train |-> <<1, 1>>, batch_val |-> <<1, 1>>],
              [data |-> {Win, Mid}, max_runs |-> 1,
               batch_train |-> <<2, 1>>, batch_val |-> <<1, 2>>]}

\* sum([x*15 for x in batch_train])
StepsPerEpoch == SumSeq([b \in Blocks |-> batch_train[b] * NumFrac])

StepAfterStale(step) == step
\* global_step += 1
StepAfter(step) == step + 1

\* if ep != 1: the passes over the combined data
CombinedEpochCompeteOnly(e) == e > 1
CombinedEpoch(e) == e # 1

NanSkipNever(loss) == FALSE
\* np.isnan(err_valid[0])
NanSkip(loss) == IsNaN(loss)

EarlyStopNever(c) == FALSE
\* counter == self.cfg.early_stopping - 1
EarlyStop(c) == c = EarlyStopping - 1

\* BaseCNN.save_epoch: does this epoch's validation error improve on the best
Improved(err, best) == ~IsNaN(err) /\ (best = None \/ RatLess(err, best))

\* for ep in range(start_epoch, self.cfg.epoch): enter epoch e, or leave the loop
EnterEpoch(e) ==
    IF e < MaxEpoch
    THEN /\ pc' = "train" /\ outcome' = "running"
         /\ ep' = e /\ index' = 1 /\ idx' = 0 /\ frac' = 0
         /\ ep_log' = {} /\ ep_steps' = 0 /\ ep_fwd' = 0
    ELSE /\ pc' = "returned" /\ outcome' = "epochs_done"
         /\ UNCHANGED <<ep, index, idx, frac, ep_log, ep_steps, ep_fwd>>

testVars == <<inferred, error_pred, error_vvc, error_blocks, batch_test, results>>

\* train(), lines 61-79: read the data, load the checkpoint, derive the epoch
StartTrain ==
    /\ pc \in {"idle", "returned", "raised"}
    /\ runs < max_runs
    /\ runs' = runs + 1
    /\ loaded' = ckpt
    /\ global_step' = ckpt.step
    /\ params' = ckpt.params
    /\ best_val' = ckpt.best
    /\ counter' = 0
    /\ start_epoch' = global_step' \div StepsPerEpoch
    /\ err_train' = None /\ err_valid' = None /\ err_val' = None
    /\ error_val_list' = <<>> /\ val_fed' = 0 /\ val_nan' = 0 /\ val_skipped' = 0
    /\ feed' = NoFeed
    /\ summaries' = {} /\ steps' = 0 /\ saved' = None
    /\ IF start_epoch' < MaxEpoch
       THEN EnterEpoch(start_epoch')
       ELSE /\ pc' = "returned" /\ outcome' = "epochs_done"
            /\ ep' = start_epoch' /\ index' = 1 /\ idx' = 0 /\ frac' = 0
            /\ ep_log' = {} /\ ep_steps' = 0 /\ ep_fwd' = 0
    /\ UNCHANGED <<data, max_runs, batch_train, batch_val, ckpt>>
    /\ UNCHANGED testVars

\* the end of the training pass: error_val_list = []
EnterValidation ==
    /\ pc' = "val" /\ index' = 1 /\ idx' = 0 /\ frac' = 0
    /\ error_val_list' = <<>> /\ val_fed' = 0 /\ val_nan' = 0 /\ val_skipped' = 0

\* lines 85-98: one batch of the combined training data
TrainCombined ==
    /\ pc = "train" /\ CombinedEpoch(ep)
    /\ \E b \in data :
         LET f == competition_feed_dict(b, ep, 0)
             loss == calculate_loss(f)
         IN  /\ feed' = f
             /\ err_valid' = loss
             /\ ep_fwd' = ep_fwd + 1
             /\ IF NanSkip(loss)
                THEN UNCHANGED <<params, err_train, global_step, summaries, steps, ep_steps>>
                ELSE /\ params' = params + 1
                     /\ err_train' = loss
                     /\ global_step' = StepAfter(global_step)
                     /\ summaries' = summaries \cup {global_step'}
                     /\ steps' = steps + 1
                     /\ ep_steps' = ep_steps + 1
             /\ ep_log' = ep_log \cup {<<index, idx, f.subset>>}
    /\ IF idx + 1 < batch_train[index] * NumFrac
       THEN /\ idx' = idx + 1
            /\ UNCHANGED <<pc, index, frac, error_val_list, val_fed, val_nan, val_skipped>>
       ELSE IF index < NumBlocks
       THEN /\ index' = index + 1 /\ idx' = 0
            /\ UNCHANGED <<pc, frac, error_val_list, val_fed, val_nan, val_skipped>>
       ELSE EnterValidation
    /\ UNCHANGED <<outcome, runs, data, max_runs, batch_train, batch_val, ckpt, best_val, counter, loaded,
                   start_epoch, ep, err_val, saved>>
    /\ UNCHANGED testVars

\* lines 115-124: one batch of one fractional subset of the training data
TrainSubset ==
    /\ pc = "train" /\ ~CombinedEpoch(ep)
    /\ \E b \in data :
         LET f == competition_feed_dict(b, ep, frac)
             loss == calculate_loss(f)
         IN  /\ feed' = f
             /\ params' = params + 1
             /\ err_train' = loss
             /\ global_step' = StepAfter(global_step)
             /\ summaries' = summaries \cup {global_step'}
             /\ steps' = steps + 1
             /\ ep_steps' = ep_steps + 1
             /\ ep_log' = ep_log \cup {<<index, idx, f.subset>>}
    /\ IF frac + 1 < NumFrac
       THEN /\ frac' = frac + 1
            /\ UNCHANGED <<pc, index, idx, error_val_list, val_fed, val_nan, val_skipped>>
       ELSE IF idx + 1 < batch_train[index]
       THEN /\ idx' = idx + 1 /\ frac' = 0
            /\ UNCHANGED <<pc, index, error_val_list, val_fed, val_nan, val_skipped>>
       ELSE IF index < NumBlocks
       THEN /\ index' = index + 1 /\ idx' = 0 /\ frac' = 0
            /\ UNCHANGED <<pc, error_val_list, val_fed, val_nan, val_skipped>>
       ELSE EnterValidation
    /\ UNCHANGED <<outcome, runs, data, max_runs, batch_train, batch_val, ckpt, best_val, counter, loaded,
                   start_epoch, ep, err_valid, err_val, ep_fwd, saved>>
    /\ UNCHANGED testVars

ValCombinedTrains ==
    /\ pc = "val" /\ CombinedEpoch(ep)
    /\ \E b \in data :
         LET f == competition_feed_dict(b, ep, 0)
             loss == calculate_loss(f)
         IN  /\ feed' = f
             /\ err_valid' = loss
             /\ val_fed' = val_fed + 1
             /\ val_nan' = IF IsNaN(loss) THEN val_nan + 1 ELSE val_nan
             /\ IF NanSkip(loss)
                THEN /\ val_skipped' = val_skipped + 1
                     /\ UNCHANGED error_val_list
                ELSE /\ error_val_list' = Append(error_val_list, loss)
                     /\ UNCHANGED val_skipped
    /\ IF idx + 1 < batch_val[index]
       THEN /\ idx' = idx + 1 /\ UNCHANGED <<pc, index>>
       ELSE IF index < NumBlocks
       THEN /\ index' = index + 1 /\ idx' = 0 /\ UNCHANGED pc
       ELSE /\ pc' = "mean" /\ UNCHANGED <<index, idx>>
    /\ params' = params + 1 /\ global_step' = global_step + 1 /\ steps' = steps + 1
    /\ UNCHANGED <<outcome, runs, data, max_runs, batch_train, batch_val, ckpt, summaries, best_val,
                   counter, loaded, start_epoch, ep, frac, err_train,
                   err_val, ep_log, ep_steps, ep_fwd, saved>>
    /\ UNCHANGED testVars

\* lines 102-109: one batch of the combined validation data
ValCombined ==
    /\ pc = "val" /\ CombinedEpoch(ep)
    /\ \E b \in data :
         LET f == competition_feed_dict(b, ep, 0)
             loss == calculate_loss(f)
         IN  /\ feed' = f
             /\ err_valid' = loss
             /\ val_fed' = val_fed + 1
             /\ val_nan' = IF IsNaN(loss) THEN val_nan + 1 ELSE val_nan
             /\ IF NanSkip(loss)
                THEN /\ val_skipped' = val_skipped + 1
                     /\ UNCHANGED error_val_list
                ELSE /\ error_val_list' = Append(error_val_list, loss)
                     /\ UNCHANGED val_skipped
    /\ IF idx + 1 < batch_val[index]
       THEN /\ idx' = idx + 1 /\ UNCHANGED <<pc, index>>
       ELSE IF index < NumBlocks
       THEN /\ index' = index + 1 /\ idx' = 0 /\ UNCHANGED pc
       ELSE /\ pc' = "mean" /\ UNCHANGED <<index, idx>>
    /\ UNCHANGED <<outcome, runs, data, max_runs, batch_train, batch_val, ckpt, params, summaries, best_val,
                   counter, loaded, global_step, start_epoch, ep, frac, err_train,
                   err_val, steps, ep_log, ep_steps, ep_fwd, saved>>
    /\ UNCHANGED testVars

\* lines 128-135: one batch of one fractional subset of the validation data
ValSubset ==
    /\ pc = "val" /\ ~CombinedEpoch(ep)
    /\ \E b \in data :
         LET f == competition_feed_dict(b, ep, frac)
             loss == calculate_loss(f)
         IN  /\ feed' = f
             /\ err_valid' = loss
             /\ val_fed' = val_fed + 1
             /\ val_nan' = IF IsNaN(loss) THEN val_nan + 1 ELSE val_nan
             /\ error_val_list' = Append(error_val_list, loss)
             /\ UNCHANGED val_skipped
    /\ IF frac + 1 < NumFrac
       THEN /\ frac' = frac + 1 /\ UNCHANGED <<pc, index, idx>>
       ELSE IF idx + 1 < batch_val[index]
       THEN /\ idx' = idx + 1 /\ frac' = 0 /\ UNCHANGED <<pc, index>>
       ELSE IF index < NumBlocks
       THEN /\ index' = index + 1 /\ idx' = 0 /\ frac' = 0 /\ UNCHANGED pc
       ELSE /\ pc' = "mean" /\ UNCHANGED <<index, idx, frac>>
    /\ UNCHANGED <<outcome, runs, data, max_runs, batch_train, batch_val, ckpt, params, summaries, best_val,
                   counter, loaded, global_step, start_epoch, ep, err_train,
                   err_val, steps, ep_log, ep_steps, ep_fwd, saved>>
    /\ UNCHANGED testVars

MeanDefaulted ==
    /\ pc = "mean"
    /\ pc' = "save"
    /\ err_val' = IF Len(error_val_list) = 0 THEN Rat(0)
                  ELSE RatDivInt(RatSum(error_val_list), Len(error_val_list))
    /\ UNCHANGED <<outcome, runs, data, max_runs, batch_train, batch_val, ckpt, params,
                   summaries, best_val, counter, loaded, global_step, start_epoch, ep,
                   index, idx, frac, feed, err_valid, err_train, error_val_list, steps,
                   val_fed, val_nan, val_skipped, ep_log, ep_steps, ep_fwd, saved,
                   inferred, error_pred, error_vvc, error_blocks, batch_test, results>>

\* lines 111 and 137: err_val = sum(error_val_list) / len(error_val_list)
Mean ==
    /\ pc = "mean"
    /\ IF Len(error_val_list) = 0
       THEN /\ pc' = "raised" /\ outcome' = "ZeroDivisionError"
            /\ UNCHANGED err_val
       ELSE /\ pc' = "save"
            /\ err_val' = RatDivInt(RatSum(error_val_list), Len(error_val_list))
            /\ UNCHANGED outcome
    /\ UNCHANGED <<runs, data, max_runs, batch_train, batch_val, ckpt, params, summaries, best_val,
                   counter, loaded, global_step, start_epoch, ep, index, idx, frac, feed,
                   err_valid, err_train, error_val_list, steps, val_fed, val_nan,
                   val_skipped, ep_log, ep_steps, ep_fwd, saved>>
    /\ UNCHANGED testVars

\* lines 139-142: save_epoch, the early-stopping test, and the next epoch
SaveEpoch ==
    /\ pc = "save"
    /\ LET imp == Improved(err_val, best_val)
           c == IF imp THEN 0 ELSE counter + 1
       IN  /\ counter' = c
           /\ best_val' = IF imp THEN err_val ELSE best_val
           /\ ckpt' = IF imp
                      THEN [step |-> global_step, params |-> params, best |-> err_val,
                            epoch |-> ep, fresh |-> (loaded.step = 0)]
                      ELSE ckpt
           /\ saved' = [ep |-> ep, step |-> global_step, err_train |-> err_train,
                        err_val |-> err_val, counter |-> c]
           /\ IF EarlyStop(c)
              THEN /\ pc' = "returned" /\ outcome' = "early_stop"
                   /\ UNCHANGED <<ep, index, idx, frac, ep_log, ep_steps, ep_fwd>>
              ELSE EnterEpoch(ep + 1)
    /\ UNCHANGED <<runs, data, max_runs, batch_train, batch_val, params, summaries, loaded, global_step,
                   start_epoch, feed, err_valid, err_train, error_val_list, err_val,
                   steps, val_fed, val_nan, val_skipped>>
    /\ UNCHANGED testVars

\* ------------------------------------------------------------- test()
LoadFailedNever(step) == FALSE
\* if not global_step
LoadFailed(step) == step = 0

\* math.ceil(len(test_data[block]) / self.cfg.batch_size), for the test data explored
TestShape == <<1, 2>>

\* per block category, the per-sample <<NN cost, baseline cost>> the test data can yield
TestCosts == { << <<1, 2>>, <<2, 1>> >>, << <<1, 1>>, <<3, 2>> >> }

Min2(a, b) == IF a < b THEN a ELSE b

\* utils.calculate_test_error: the NN cost, the baseline cost and the cost
\* of choosing the cheaper of the two per sample, summed over the samples
calculate_test_error(samples) ==
    [nn_cost |-> SumSeq([k \in 1..Len(samples) |-> samples[k][1]]),
     vvc_cost |-> SumSeq([k \in 1..Len(samples) |-> samples[k][2]]),
     switch_cost |-> SumSeq([k \in 1..Len(samples) |-> Min2(samples[k][1], samples[k][2])])]

trainLocals == <<best_val, counter, start_epoch, ep, frac, err_valid, err_train,
                 error_val_list, err_val, steps, val_fed, val_nan, val_skipped, ep_log,
                 ep_steps, ep_fwd, saved, summaries>>

\* test(), lines 151-160: read the test data, load the checkpoint or fail
StartTest ==
    /\ pc \in {"idle", "returned", "raised"}
    /\ loaded' = ckpt
    /\ global_step' = ckpt.step
    /\ params' = ckpt.params
    /\ batch_test' = TestShape
    /\ inferred' = 0
    /\ error_pred' = <<>> /\ error_vvc' = <<>> /\ error_blocks' = <<>>
    /\ index' = 1 /\ idx' = 0
    /\ feed' = NoFeed
    /\ best_val' = None /\ counter' = 0 /\ start_epoch' = 0 /\ ep' = 0 /\ frac' = 0
    /\ err_valid' = None /\ err_train' = None /\ error_val_list' = <<>> /\ err_val' = None
    /\ steps' = 0 /\ val_fed' = 0 /\ val_nan' = 0 /\ val_skipped' = 0
    /\ ep_log' = {} /\ ep_steps' = 0
    /\ ep_fwd' = 0 /\ saved' = None /\ summaries' = {}
    /\ IF LoadFailed(global_step')
       THEN pc' = "test_raised" /\ outcome' = "SystemError"
       ELSE pc' = "test" /\ outcome' = "running"
    /\ UNCHANGED <<runs, data, max_runs, batch_train, batch_val, ckpt, results>>

TestBatchTrains ==
    /\ pc = "test"
    /\ \E b \in data : feed' = competition_feed_dict(b, 2, 0)
    /\ inferred' = inferred + 1
    /\ params' = params + 1
    /\ IF idx + 1 < batch_test[index]
       THEN idx' = idx + 1 /\ UNCHANGED pc
       ELSE pc' = "test_error" /\ UNCHANGED idx
    /\ UNCHANGED <<outcome, runs, data, max_runs, batch_train, batch_val, ckpt,
                   loaded, global_step, index, error_pred, error_vvc, error_blocks,
                   batch_test, results>>
    /\ UNCHANGED trainLocals

\* lines 168-173: one inference batch
TestBatch ==
    /\ pc = "test"
    /\ \E b \in data : feed' = competition_feed_dict(b, 2, 0)
    /\ inferred' = inferred + 1
    /\ IF idx + 1 < batch_test[index]
       THEN idx' = idx + 1 /\ UNCHANGED pc
       ELSE pc' = "test_error" /\ UNCHANGED idx
    /\ UNCHANGED <<outcome, runs, data, max_runs, batch_train, batch_val, ckpt, params,
                   loaded, global_step, index, error_pred, error_vvc, error_blocks,
                   batch_test, results>>
    /\ UNCHANGED trainLocals

TestErrorSwapped ==
    /\ pc = "test_error"
    /\ \E samples \in TestCosts :
         LET e == calculate_test_error(samples)
         IN  /\ error_pred' = Append(error_pred, e.switch_cost)
             /\ error_vvc' = Append(error_vvc, e.vvc_cost)
             /\ error_blocks' = Append(error_blocks, e.nn_cost)
    /\ IF index < NumBlocks
       THEN index' = index + 1 /\ idx' = 0 /\ pc' = "test"
       ELSE pc' = "save_results" /\ UNCHANGED <<index, idx>>
    /\ UNCHANGED <<outcome, runs, data, max_runs, batch_train, batch_val, ckpt, params,
                   loaded, global_step, feed, inferred, batch_test, results>>
    /\ UNCHANGED trainLocals

\* lines 175-179: the costs of one block category
TestError ==
    /\ pc = "test_error"
    /\ \E samples \in TestCosts :
         LET e == calculate_test_error(samples)
         IN  /\ error_pred' = Append(error_pred, e.nn_cost)
             /\ error_vvc' = Append(error_vvc, e.vvc_cost)
             /\ error_blocks' = Append(error_blocks, e.switch_cost)
    /\ IF index < NumBlocks
       THEN index' = index + 1 /\ idx' = 0 /\ pc' = "test"
       ELSE pc' = "save_results" /\ UNCHANGED <<index, idx>>
    /\ UNCHANGED <<outcome, runs, data, max_runs, batch_train, batch_val, ckpt, params,
                   loaded, global_step, feed, inferred, batch_test, results>>
    /\ UNCHANGED trainLocals

\* lines 181-182: save_results
SaveResults ==
    /\ pc = "save_results"
    /\ results' = Append(results, <<error_pred, error_vvc, error_blocks>>)
    /\ pc' = "tested" /\ outcome' = "tested"
    /\ UNCHANGED <<runs, data, max_runs, batch_train, batch_val, ckpt, params,
                   loaded, global_step, index, idx, feed, inferred, error_pred, error_vvc,
                   error_blocks, batch_test>>
    /\ UNCHANGED trainLocals

Init ==
    /\ pc = "idle"
    /\ feed = NoFeed
    /\ err_valid = None
    /\ \E sc \in Scenarios :
         /\ data = sc.data /\ max_runs = sc.max_runs
         /\ batch_train = sc.batch_train /\ batch_val = sc.batch_val
    /\ Quiet

Next ==
    \/ StartTrain
    \/ TrainCombined
    \/ TrainSubset
    \/ ValCombined
    \/ ValSubset
    \/ Mean
    \/ SaveEpoch
    \/ StartTest
    \/ TestBatch
    \/ TestError
    \/ SaveResults

Spec == Init /\ [][Next]_vars

\* a step of a running train(): the interpreter runs the next statement of
\* a call that has not ended
TrainStep ==
    \/ TrainCombined
    \/ TrainSubset
    \/ ValCombined
    \/ ValSubset
    \/ Mean
    \/ SaveEpoch

\* weak fairness of TrainStep, WF_vars(TrainStep), with its enabling
\* condition written out: TrainStep is enabled exactly while train() is
\* inside its epoch loop (each of its actions is guarded by the position pc
\* alone, the two passes by CombinedEpoch(ep) or its negation)
TrainRuns ==
    \/ []<>(pc \notin {"train", "val", "mean", "save"})
    \/ []<><<TrainStep>>_vars

\* the same behaviours, with a running train() never left suspended
SpecLive == Spec /\ TrainRuns

\* ================================================================ claims
\* the smallest entry of a row, by its defining property
SmallestOf(row) ==
    CHOOSE m \in {row[j] : j \in 1..Len(row)} : \A j \in 1..Len(row) : ~RatLess(row[j], m)

RECURSIVE RatSumSet(_, _)
RatSumSet(S, v) ==
    IF S = {} THEN Rat(0)
    ELSE LET s == CHOOSE x \in S : TRUE IN RatAdd(v[s], RatSumSet(S \ {s}, v))

\* the samples whose minimum branch loss is strictly below their baseline cost
RetainedSamples(f) ==
    {s \in 1..Len(f.cost) : RatLess(SmallestOf(f.cost[s]), f.vvc_loss[s])}

\* the mean of the minimum branch losses of the retained samples
CompetitiveLoss(f) ==
    LET R == RetainedSamples(f)
        mins == [s \in 1..Len(f.cost) |-> SmallestOf(f.cost[s])]
    IN  IF R = {} THEN NaN ELSE RatDivInt(RatSumSet(R, mins), Cardinality(R))

\* the mean over all branches and all samples
AllBranchesLoss(f) ==
    RatDivInt(RatSum([s \in 1..Len(f.cost) |-> RatSum(f.cost[s])]),
              Len(f.cost) * NBranches)

\* the mean over the samples of the branch at the subset index
SingleBranchLoss(f) ==
    RatDivInt(RatSum([s \in 1..Len(f.cost) |-> f.cost[s][f.subset + 1]]), Len(f.cost))

IsExample(f) == f.cost = ExampleBatch.cost /\ f.vvc_loss = ExampleBatch.vvc_loss

\* C1: at every epoch >= 2 a sample is kept exactly when its minimum branch
\* loss is strictly below its baseline cost (a tie is dropped), and the loss
\* is the mean of the minimum branch losses of the kept samples; the batch
\* nn = (0.1, 0.2, 0.3), baseline = (0.5, 0.1, 0.4) keeps samples 0 and 2 and
\* gives 0.2 (costs in units of 0.1).
C1_CompetitiveMask ==
    (pc = "ran" /\ feed.epoch >= 2) =>
        /\ cast_bool(argmax0(stack(reduce_min_axis1(feed.cost), feed.vvc_loss)))
             = [s \in 1..Len(feed.cost) |-> s \in RetainedSamples(feed)]
        /\ Len(vvc_competition(feed.cost, feed.vvc_loss)) = Cardinality(RetainedSamples(feed))
        /\ err_valid = CompetitiveLoss(feed)
        /\ IsExample(feed) => (RetainedSamples(feed) = {1, 3} /\ err_valid = Rat(2))

C1_Witness ==
    /\ pc = "ran" /\ feed.epoch >= 2 /\ IsExample(feed)
    /\ err_valid = Rat(2)

\* C2: a training batch of an epoch >= 2 on which no sample beats the
\* baseline (the loss is NaN) is skipped: no optimizer step, parameters,
\* global_step and the summaries are unchanged.
EmptyMask(f) ==
    \A s \in 1..Len(f.cost) : ~RatLess(SmallestOf(f.cost[s]), f.vvc_loss[s])

C2_NanBatchSkipped ==
    [][(pc = "train" /\ ep >= 2 /\ EmptyMask(feed')) =>
           /\ IsNaN(err_valid')
           /\ global_step' = global_step
           /\ params' = params
           /\ summaries' = summaries
           /\ steps' = steps
           /\ err_train' = err_train]_vars

C2_Witness ==
    /\ pc = "train" /\ ep >= 2 /\ feed.epoch = ep
    /\ EmptyMask(feed) /\ IsNaN(err_valid)
    /\ ep_steps > 0 /\ ep_fwd > ep_steps

\* C3: throughout train(), global_step is what load() returned plus the
\* optimizer steps run so far; it grows by one with each optimizer step, stays
\* put on skipped batches and in validation, and never decreases.
InTrain == pc \in {"train", "val", "mean", "save"}

C3_GlobalStepCounts ==
    [][/\ InTrain' => global_step' = loaded'.step + steps'
       /\ InTrain =>
            /\ steps' \in {steps, steps + 1}
            /\ global_step' - global_step = steps' - steps
            /\ (params' # params) <=> (steps' = steps + 1)
            /\ pc # "train" => global_step' = global_step
            /\ (pc = "train" /\ ep # 1 /\ IsNaN(err_valid')) => global_step' = global_step]_vars

C3_Witness ==
    /\ InTrain /\ loaded.step > 0 /\ steps > 0
    /\ ep_fwd > ep_steps /\ global_step = loaded.step + steps

\* C4: with the counter being the number of consecutive epochs without
\* improvement, training stopped early has completed early_stopping
\* consecutive epochs without improvement.
C4_StopsAfterPatience ==
    (pc = "returned" /\ outcome = "early_stop") => counter = EarlyStopping

\* C5: a run resumed from a checkpoint that a run started at global_step 0
\* wrote at the end of epoch E starts at epoch E + 1.
C5_ResumeAtNextEpoch ==
    (pc \in {"train", "val", "mean", "save", "returned", "raised"}
        /\ loaded.epoch >= 0 /\ loaded.fresh)
    => start_epoch = loaded.epoch + 1

\* C6: when every validation batch of an epoch was skipped, the mean raises
\* ZeroDivisionError out of train(): no validation error is assigned and
\* save_epoch is not called; the call has ended.
C6_EmptyValidationRaises ==
    [][/\ (pc = "mean" /\ val_skipped = val_fed) =>
            /\ pc' = "raised" /\ outcome' = "ZeroDivisionError"
            /\ err_val' = err_val /\ saved' = saved
            /\ ckpt' = ckpt /\ counter' = counter /\ best_val' = best_val
       /\ pc = "raised" => (runs' = runs + 1 \/ pc' \in {"test", "test_raised"})]_vars

C6_Witness ==
    /\ pc = "raised" /\ outcome = "ZeroDivisionError"
    /\ val_fed > 0 /\ val_skipped = val_fed
    /\ ep >= 2 /\ saved # None /\ saved.ep = ep - 1

\* C7: test() with no trained checkpoint (load() returns 0) raises before
\* any inference batch and without save_results, and test() goes on only
\* when load() returned a step.
C7_TestNeedsCheckpoint ==
    /\ pc = "test_raised" =>
         /\ loaded.step = 0 /\ outcome = "SystemError"
         /\ inferred = 0 /\ results = <<>>
         /\ error_pred = <<>> /\ error_vvc = <<>> /\ error_blocks = <<>>
    /\ pc \in {"test", "test_error", "save_results", "tested"} => loaded.step # 0

C7_Witness == pc = "test_raised" /\ ckpt = NoCkpt /\ inferred = 0

\* C8: the reduction is chosen by the epoch alone: the mean over all
\* branches and samples at epoch 0 (and below), the mean of the branch at the
\* subset index at epoch 1, the competitive loss at every epoch >= 2.
C8_PhaseByEpoch ==
    pc = "ran" =>
        err_valid = (IF feed.epoch >= 2 THEN CompetitiveLoss(feed)
                     ELSE IF feed.epoch = 1 THEN SingleBranchLoss(feed)
                     ELSE AllBranchesLoss(feed))

C8_Witness ==
    /\ pc = "ran" /\ feed.epoch = 1 /\ feed.subset = 1
    /\ err_valid # AllBranchesLoss(feed)
    /\ err_valid # CompetitiveLoss(feed)
    /\ err_valid # SingleBranchLoss([feed EXCEPT !.subset = 0])

\* the training pass of the epoch has just ended
EndOfTrainingPass == pc = "val" /\ val_fed = 0

\* one batch per block category, batch index and fractional subset
SubsetKeys ==
    UNION {{<<b, k, i>> : k \in 0..(batch_train[b] - 1), i \in 0..(NumFrac - 1)}
           : b \in Blocks}

\* the batches of the combined data of each block category, subset index 0
CombinedKeys ==
    UNION {{<<b, k, 0>> : k \in 0..(batch_train[b] * NumFrac - 1)} : b \in Blocks}

\* C9 as stated: the training passes of epochs 0 and 1 both run one
\* optimizer step per block category, batch index and subset i, without a
\* loss-only pass; only the epochs >= 2 iterate the combined data.
C9_WarmupBySubset ==
    EndOfTrainingPass =>
        IF ep \in {0, 1}
        THEN ep_log = SubsetKeys /\ ep_steps = Cardinality(SubsetKeys) /\ ep_fwd = 0
        ELSE ep_log = CombinedKeys /\ ep_fwd = Cardinality(CombinedKeys)

\* C9 as amended: only the training pass of epoch 1 runs one optimizer step
\* per block category, batch index and subset i; the passes of epoch 0 and of
\* the epochs >= 2 iterate the combined data with subset index 0, a loss-only
\* pass on every batch and an optimizer step on those whose loss is not NaN.
C9_OnlyTargetedBySubset ==
    /\ EndOfTrainingPass =>
         IF ep = 1
         THEN ep_log = SubsetKeys /\ ep_steps = Cardinality(SubsetKeys) /\ ep_fwd = 0
         ELSE ep_log = CombinedKeys /\ ep_fwd = Cardinality(CombinedKeys)
    /\ (pc = "train" /\ ep = 1) =>
         ep_fwd = 0 /\ ep_steps = Cardinality(ep_log) /\ ep_log \subseteq SubsetKeys
    /\ (pc = "train" /\ ep # 1) =>
         /\ ep_fwd = Cardinality(ep_log) /\ ep_steps <= ep_fwd
         /\ ep_log \subseteq CombinedKeys
         /\ ep_fwd > 0 => (IsNaN(err_valid) \/ err_train = err_valid)

C9_Witness ==
    /\ EndOfTrainingPass /\ ep = 0
    /\ ep_log = CombinedKeys /\ ep_steps > 0 /\ ep_steps < ep_fwd

\* C10 as stated: in every epoch the validation error handed to save_epoch
\* is the mean of the batches whose loss is not NaN, all others skipped, so
\* it is never NaN.
C10_ValidationSkipsNaN ==
    pc = "save" =>
        /\ val_skipped = val_nan
        /\ Len(error_val_list) = val_fed - val_nan
        /\ ~IsNaN(err_val)

\* C10 as amended: validation never runs an optimizer step; in every epoch
\* but epoch 1 a batch whose loss is NaN is skipped and the validation error is
\* the mean of the others, never NaN; in epoch 1 no batch is skipped and the
\* validation error is the mean of all the batches' losses.
C10_ValidationSkipsOutsideTargeted ==
    [][/\ pc = "val" =>
            /\ params' = params /\ global_step' = global_step
            /\ steps' = steps /\ summaries' = summaries
            /\ IF ep # 1 /\ IsNaN(err_valid')
               THEN error_val_list' = error_val_list
               ELSE error_val_list' = Append(error_val_list, err_valid')
       /\ (pc = "mean" /\ pc' = "save") =>
            /\ err_val' = reduce_mean(error_val_list)
            /\ Len(error_val_list) = val_fed - val_skipped
            /\ ep # 1 => (val_skipped = val_nan /\ ~IsNaN(err_val'))
            /\ ep = 1 => val_skipped = 0]_vars

C10_Witness ==
    /\ pc = "save" /\ ep = 1
    /\ val_nan > 0 /\ val_skipped = 0 /\ IsNaN(err_val)

\* the batch f with every branch but the one at the subset index replaced by v
OtherBranchesSet(f, v) ==
    [f EXCEPT !.cost = [s \in 1..Len(f.cost) |->
                          [j \in 1..NBranches |->
                              IF j = f.subset + 1 THEN f.cost[s][j] ELSE v]]]

\* C11: at epoch 1 the loss is the mean over the samples of the branch at
\* the subset index alone: overwriting every other branch (with zeros, with
\* the largest cost, with NaN) leaves it unchanged, so any two batches that
\* agree on that branch have the same loss.
C11_SingleBranchOnly ==
    (pc = "ran" /\ feed.epoch = 1) =>
        /\ err_valid = SingleBranchLoss(feed)
        /\ \A v \in {Rat(0), Rat(MaxCost), NaN} :
             calculate_loss(OtherBranchesSet(feed, v)) = err_valid

C11_Witness ==
    /\ pc = "ran" /\ feed.epoch = 1 /\ feed.subset = NBranches - 1
    /\ OtherBranchesSet(feed, Rat(0)) # feed
    /\ ~IsNaN(err_valid)
    /\ err_valid # AllBranchesLoss(feed)
    /\ calculate_loss(OtherBranchesSet(feed, Rat(0))) = err_valid

\* the cost of a test sample <<NN cost, baseline cost>> under switching:
\* the baseline's when the NN costs more, the NN's when it costs less
SwitchedCost(sample) ==
    IF sample[1] > sample[2] THEN sample[2]
    ELSE IF sample[1] < sample[2] THEN sample[1]
    ELSE sample[1]

InTest == pc \in {"test", "test_error", "save_results"}

\* C13: test() runs no optimizer step and leaves the parameters it loaded
\* and the checkpoint unchanged; it appends one triple of costs per block
\* category, in category order, and calls save_results once, after the last
\* category.
C13_TestReadOnly ==
    /\ []((InTest \/ pc = "tested") =>
            /\ loaded = ckpt /\ params = ckpt.params /\ global_step = ckpt.step
            /\ steps = 0 /\ summaries = {}
            /\ Len(error_pred) = Len(error_vvc) /\ Len(error_vvc) = Len(error_blocks))
    /\ [](pc = "test" => Len(error_blocks) = index - 1 /\ results = <<>>)
    /\ [](pc = "test_error" => Len(error_blocks) = index - 1 /\ results = <<>>)
    /\ [](pc = "save_results" => Len(error_blocks) = NumBlocks /\ results = <<>>)
    /\ [](pc = "tested" =>
            /\ Len(error_blocks) = NumBlocks
            /\ results = << <<error_pred, error_vvc, error_blocks>> >>)
    /\ [][/\ (InTest \/ InTest') => ckpt' = ckpt
          /\ InTest =>
               /\ params' = params /\ global_step' = global_step /\ loaded' = loaded
               /\ steps' = steps /\ summaries' = summaries
               /\ (pc = "test_error") <=> (Len(error_blocks') = Len(error_blocks) + 1)
               /\ (pc = "save_results") <=> (results' # results)]_vars

C13_Witness ==
    /\ pc = "tested" /\ runs > 0 /\ steps = 0
    /\ inferred = SumSeq(batch_test) /\ inferred > NumBlocks
    /\ ckpt.step > 0 /\ params = ckpt.params
    /\ Len(results) = 1 /\ Len(results[1][1]) = NumBlocks

\* the index argmax picks for each sample of the fed batch
FedArgmax == argmax0(stack(reduce_min_axis1(feed.cost), feed.vvc_loss))

\* the samples of the fed batch whose losses are numbers
FiniteSamples ==
    {s \in 1..Len(feed.cost) :
        ~IsNaN(SmallestOf(feed.cost[s])) /\ ~IsNaN(feed.vvc_loss[s])}

\* C14 as stated: at an epoch >= 2 the argmax over [nn_loss, baseline loss]
\* is 1 for every sample but those whose nn_loss is strictly greater than the
\* baseline loss, so it is 1 on a tie.
C14_TieSelectsBaseline ==
    (pc = "ran" /\ feed.epoch >= 2) =>
        \A s \in FiniteSamples :
            FedArgmax[s] = (IF RatLess(feed.vvc_loss[s], SmallestOf(feed.cost[s]))
                            THEN 0 ELSE 1)

\* C14 as amended: the argmax is 1 exactly for the samples whose baseline
\* loss is strictly greater than their nn_loss; it is 0 when nn_loss is
\* greater and 0 on a tie (the first of two equal rows).
C14_StrictlyGreaterSelectsBaseline ==
    (pc = "ran" /\ feed.epoch >= 2) =>
        \A s \in FiniteSamples :
            /\ FedArgmax[s] = (IF RatLess(SmallestOf(feed.cost[s]), feed.vvc_loss[s])
                               THEN 1 ELSE 0)
            /\ SmallestOf(feed.cost[s]) = feed.vvc_loss[s] => FedArgmax[s] = 0

C14_Witness ==
    /\ pc = "ran" /\ feed.epoch >= 2
    /\ \E s \in FiniteSamples :
         /\ SmallestOf(feed.cost[s]) = feed.vvc_loss[s]
         /\ FedArgmax[s] = 0
         /\ s \notin RetainedSamples(feed)
    /\ \E s \in 1..Len(feed.cost) : FedArgmax[s] = 1

TrainEnded == pc \in {"returned", "raised"}

\* the loop of train() was left by its range running out or by the break
LeftLoop ==
    \/ /\ outcome = "early_stop"
       /\ saved # None /\ saved.ep = ep /\ saved.counter = EarlyStopping - 1
    \/ /\ outcome = "epochs_done"
       /\ \/ saved = None /\ start_epoch >= MaxEpoch
          \/ /\ saved # None /\ saved.ep = MaxEpoch - 1
             /\ saved.counter # EarlyStopping - 1

\* C15 as stated: a call of train() ends only by the epoch index reaching
\* cfg.epoch or by save_epoch returning early_stopping - 1.
C15_StopsOnlyByLoop == TrainEnded => LeftLoop

\* C15 as amended: a running train() always ends; it returns exactly when the
\* epoch index reaches cfg.epoch or save_epoch returns early_stopping - 1
\* (a normal return), and otherwise ends only by the ZeroDivisionError of an
\* epoch whose validation batches were all skipped; no batch is run after
\* the last epoch.
C15_StopsByLoopOrError ==
    /\ InTrain ~> TrainEnded
    /\ [](pc = "returned" => LeftLoop)
    /\ [](pc = "raised" =>
            /\ outcome = "ZeroDivisionError" /\ error_val_list = <<>>
            /\ val_skipped = val_fed)
    /\ [][/\ pc = "save" =>
               IF saved'.counter = EarlyStopping - 1
               THEN pc' = "returned" /\ outcome' = "early_stop"
               ELSE IF ep + 1 >= MaxEpoch
               THEN pc' = "returned" /\ outcome' = "epochs_done"
               ELSE pc' = "train" /\ ep' = ep + 1
          /\ (InTrain /\ pc # "save" /\ pc # "mean") => InTrain'
          /\ (TrainEnded /\ runs' = runs) =>
               /\ ~InTrain'
               /\ ep_fwd' = ep_fwd \/ pc' \in {"test", "test_raised"}
               /\ ep_steps' = ep_steps \/ pc' \in {"test", "test_raised"}
               /\ val_fed' = val_fed \/ pc' \in {"test", "test_raised"}]_vars

C15_Witness ==
    /\ pc = "returned" /\ outcome = "early_stop"
    /\ ep < MaxEpoch - 1 /\ runs = 1
    /\ saved.counter = EarlyStopping - 1

\* the training batches of epoch e
TrainKeys(e) == IF e = 1 THEN SubsetKeys ELSE CombinedKeys

\* the validation batches the loops of epoch e feed
ValBatches(e) == IF e = 1 THEN SumSeq(batch_val) * NumFrac ELSE SumSeq(batch_val)

\* C16: train() loads the checkpoint once, before any optimizer step; in
\* every epoch the whole training pass precedes the validation pass; and
\* save_epoch is called once per completed epoch, after its validation pass,
\* with the epoch's index and the global_step its training pass ended on.
C16_TrainOrdering ==
    /\ [](InTrain => (saved = None \/ saved.ep < ep))
    /\ []((InTrain /\ pc # "train") => ep_log = TrainKeys(ep))
    /\ []((pc = "mean" \/ pc = "save") => val_fed = ValBatches(ep))
    /\ [][/\ (runs' # runs) =>
               /\ ~InTrain /\ loaded' = ckpt /\ steps' = 0
               /\ global_step' = loaded'.step /\ params' = loaded'.params
          /\ InTrain =>
               /\ loaded' = loaded /\ runs' = runs
               /\ (steps' # steps) => pc = "train"
               /\ (ep' # ep) => (pc = "save" /\ ep' = ep + 1 /\ pc' = "train")
               /\ (saved' # saved) <=> (pc = "save")
          /\ pc = "train" =>
               val_fed' = val_fed \/ (pc' = "val" /\ val_fed' = 0 /\ error_val_list' = <<>>)
          /\ (pc = "val" \/ pc = "mean") =>
               /\ ep_log' = ep_log /\ ep_fwd' = ep_fwd /\ ep_steps' = ep_steps
               /\ global_step' = global_step /\ params' = params
          /\ pc = "save" =>
               /\ saved'.ep = ep /\ saved'.step = global_step
               /\ saved'.step = loaded.step + steps
               /\ saved'.err_val = err_val]_vars

C16_Witness ==
    /\ pc = "save" /\ ep = 2 /\ runs = 1
    /\ saved # None /\ saved.ep = 1
    /\ ep_log = CombinedKeys /\ val_fed = ValBatches(ep)
    /\ global_step > saved.step /\ global_step < saved.step + StepsPerEpoch

\* C17: the train error handed to save_epoch is the loss of an optimizer
\* step of the epoch being saved: the epoch ran at least one optimizer step
\* and the train error is not None.
C17_TrainErrorOfThisEpoch ==
    pc = "save" => (ep_steps > 0 /\ err_train # None)

\* C18: the validation pass feeds the same number of batches in every
\* epoch: batch_val[c] batches for each of the fractional positions of every
\* block category c.
C18_ValidationSameCount ==
    (pc = "mean" \/ pc = "save") => val_fed = SumSeq(batch_val) * NumFrac

====
